---- MODULE Spec2Model ----
(***************************************************************************)
(* logme-cli (src/logme.go): the migration runner of the CLI, its          *)
(* connection set-up and the docker pass-through subcommands.              *)
(*                                                                         *)
(* One behaviour is a sequence of CLI invocations issued under one         *)
(* environment (.env) against one ClickHouse database and one migration    *)
(* directory.  File names are sequences of one-character strings, so that  *)
(* strings.HasSuffix and the byte order of ioutil.ReadDir are computed.    *)
(* Spec explores the directory listings under two environments (no address *)
(* at all, DB_ADDR set); SpecCfg explores every environment and both       *)
(* migrate commands over one listing.                                      *)
(* The ledger insert is db.AsyncInsert(ctx, query, false): the driver      *)
(* returns once the server has buffered the row (wait = false); the row    *)
(* joins the migrations table when the server flushes its buffer.          *)
(***************************************************************************)
EXTENDS Naturals, Sequences, FiniteSets, TLC

\* Number of CLI invocations (migrate runs and docker pass-through
\* subcommands) explored in one behaviour.
MaxRuns == 3

\* The process slots a CLI invocation can occupy.  Spec and SpecCfg issue
\* the invocations one at a time, in slot 1.
Procs == {1, 2}
SeqProcs == {1}

\* ---------------------------------------------------------------- inputs

\* Byte values of the characters used in file names (ioutil.ReadDir sorts
\* by filename, a byte-wise string comparison).
Ord(c) ==
  CASE c = "." -> 46
    [] c = "1" -> 49
    [] c = "2" -> 50
    [] c = "3" -> 51
    [] c = "d" -> 100
    [] c = "l" -> 108
    [] c = "n" -> 110
    [] c = "q" -> 113
    [] c = "s" -> 115
    [] c = "t" -> 116
    [] c = "x" -> 120

\* The entries the migration directory may hold: two migration files, a
\* text file, a file whose name ends in "sql" but not ".sql", and a
\* directory named like a migration.
File1 == <<"1", ".", "s", "q", "l">>
File2 == <<"2", ".", "s", "q", "l">>
Notes == <<"n", ".", "t", "x", "t">>
NoDot == <<"3", "s", "q", "l">>
SubDir == <<"d", ".", "s", "q", "l">>

Entry(n, d) == [name |-> n, isDir |-> d]

DirUniverse ==
  { Entry(File1, FALSE), Entry(File2, FALSE), Entry(Notes, FALSE),
    Entry(NoDot, FALSE), Entry(SubDir, TRUE) }

Others == { Entry(Notes, FALSE), Entry(NoDot, FALSE), Entry(SubDir, TRUE) }

\* The directory listings explored: 2.sql, with or without 1.sql, with or
\* without the entries that are no migration files.
DirChoices ==
  { M \cup J : M \in { {Entry(File2, FALSE)},
                       {Entry(File1, FALSE), Entry(File2, FALSE)} },
              J \in { {}, Others } }

Names == { e.name : e \in DirUniverse }

AddrValues == {"", "ch:9000"}
LocalAddrValues == {"", "localhost:9000"}
NameValues == {"", "prod"}

\* Every environment: each variable unset (empty) or set.
EnvAll ==
  [DB_ADDR : AddrValues, DB_LOCAL_ADDR : LocalAddrValues, DB_NAME : NameValues]

\* The environments Spec runs the migrations under: nothing set, and
\* DB_ADDR alone set.
EnvMig == { e \in EnvAll : e.DB_LOCAL_ADDR = "" /\ e.DB_NAME = "" }

\* The listing SpecCfg runs over: one migration file and the entries that
\* are none.
DirCfg == { {Entry(File2, FALSE)} \cup Others }

NoName == <<>>

VARIABLES
  env,         \* os.Getenv: DB_ADDR, DB_LOCAL_ADDR, DB_NAME
  isTest,      \* migrate(isTest): the `migrate-test` command or `migrate`
  dir,         \* entries of internal/logme/migrations/
  tableExists, \* the migrations table exists in the database
  table,       \* rows of the migrations table: name -> number of rows
  inflight,    \* rows accepted by AsyncInsert(wait=false), not yet flushed
  applied,     \* name -> number of successful executions of the file's SQL
  runs,        \* CLI invocations started so far
  pc,          \* per process: position in migrate
  conn,        \* per process: the clickhouse.Options the connection uses
  files,       \* per process: result of ioutil.ReadDir
  idx,         \* per process: index of the loop over files
  err,         \* per process: the error migrate returned ("" = nil)
  trace,       \* per process: the external operations of the current run
  snap,        \* per process: table and inflight when the run started
  prev,        \* outcome of the run that ended before the current one
  cli          \* outcome of the last docker pass-through subcommand

vars == << env, isTest, dir, tableExists, table, inflight, applied, runs,
           pc, conn, files, idx, err, trace, snap, prev, cli >>

dbVars == << tableExists, table, inflight, applied >>
cfgVars == << env, isTest, dir >>

\* ------------------------------------------------------- pure functions

\* strings.HasSuffix(s, suffix)
HasSuffix(s, suffix) ==
  /\ Len(s) >= Len(suffix)
  /\ SubSeq(s, Len(s) - Len(suffix) + 1, Len(s)) = suffix

SqlSuffix == <<".", "s", "q", "l">>

\* Go string comparison a < b (byte-wise lexicographic).
RECURSIVE NameLess(_, _)
NameLess(a, b) ==
  IF a = <<>> THEN b # <<>>
  ELSE IF b = <<>> THEN FALSE
  ELSE IF Ord(Head(a)) # Ord(Head(b)) THEN Ord(Head(a)) < Ord(Head(b))
  ELSE NameLess(Tail(a), Tail(b))

\* ioutil.ReadDir: the entries of the directory sorted by filename.
RECURSIVE SortByName(_)
SortByName(S) ==
  IF S = {} THEN <<>>
  ELSE LET m == CHOOSE e \in S : \A o \in S \ {e} : NameLess(e.name, o.name)
       IN <<m>> \o SortByName(S \ {m})

RECURSIVE Reverse(_)
Reverse(q) == IF q = <<>> THEN <<>> ELSE Append(Reverse(Tail(q)), Head(q))

\* Mutant: the listing comes back in the opposite order.
ReadDirUnsorted(S) == Reverse(SortByName(S))

ReadDir(S) == SortByName(S)

\* Mutant: DB_LOCAL_ADDR is preferred over DB_ADDR.
ResolveAddrLocalFirst(e) ==
  IF e.DB_LOCAL_ADDR = "" THEN e.DB_ADDR ELSE e.DB_LOCAL_ADDR

\* Mutant: a default address stands in when both variables are unset.
ResolveAddrDefault(e) ==
  IF e.DB_ADDR # "" THEN e.DB_ADDR
  ELSE IF e.DB_LOCAL_ADDR # "" THEN e.DB_LOCAL_ADDR
  ELSE "localhost:9000"

\* getDbConn: addr := DB_ADDR; if addr == "" { addr = DB_LOCAL_ADDR }
ResolveAddr(e) == IF e.DB_ADDR = "" THEN e.DB_LOCAL_ADDR ELSE e.DB_ADDR

\* getDbConn: dbName defaults to "logme"; "_test" is appended in test mode.
ResolveDatabase(e, t) ==
  LET dbName == IF e.DB_NAME = "" THEN "logme" ELSE e.DB_NAME
      dbSuffix == IF t THEN "_test" ELSE ""
  IN dbName \o dbSuffix

\* ---------------------------------------------------------------- state

Ev(o, n, r) == [op |-> o, name |-> n, res |-> r]

NoConn == [addr |-> "", database |-> ""]
NoCli == [cmd |-> "", failed |-> FALSE, ret |-> ""]
NoPrev == [err |-> "", name |-> NoName, records |-> 0, ran |-> FALSE]

Zero == [n \in Names |-> 0]

\* A fresh database, no invocation made yet.
Fresh ==
  /\ tableExists = FALSE
  /\ table = Zero
  /\ inflight = Zero
  /\ applied = Zero
  /\ runs = 0
  /\ pc = [p \in Procs |-> "idle"]
  /\ conn = [p \in Procs |-> NoConn]
  /\ files = [p \in Procs |-> <<>>]
  /\ idx = [p \in Procs |-> 0]
  /\ err = [p \in Procs |-> ""]
  /\ trace = [p \in Procs |-> <<>>]
  /\ snap = [p \in Procs |-> [table |-> Zero, inflight |-> Zero]]
  /\ prev = NoPrev
  /\ cli = NoCli

Init ==
  /\ env \in EnvMig
  /\ isTest = FALSE
  /\ dir \in DirChoices
  /\ Fresh

InitCfg ==
  /\ env \in EnvAll
  /\ isTest \in BOOLEAN
  /\ dir \in DirCfg
  /\ Fresh

Active(p) == pc[p] \notin {"idle", "done", "panicked"}

\* The file the loop of runMigrations is at.
Cur(p) == files[p][idx[p]]

Log(p, e) == trace' = [trace EXCEPT ![p] = Append(@, e)]

\* return err
Return(p, e) ==
  /\ err' = [err EXCEPT ![p] = e]
  /\ pc' = [pc EXCEPT ![p] = "done"]

Goto(p, l) == pc' = [pc EXCEPT ![p] = l]

\* ------------------------------------------------------------- migrate

\* The file a finished run stopped at (NoName when it stopped outside the
\* loop body or ran to the end of the listing).
StoppedAt(p) ==
  IF err[p] \in {"lookup", "readfile", "exec", "insert"}
  THEN Cur(p).name ELSE NoName

\* main: a new invocation of the CLI is a new process with fresh locals.
\* prev keeps how the last migrate run before it ended.
Invoke(p) ==
  /\ ~Active(p)
  /\ runs < MaxRuns
  /\ runs' = runs + 1
  /\ conn' = [conn EXCEPT ![p] = NoConn]
  /\ files' = [files EXCEPT ![p] = <<>>]
  /\ idx' = [idx EXCEPT ![p] = 0]
  /\ trace' = [trace EXCEPT ![p] = <<>>]
  /\ snap' = [snap EXCEPT ![p] = [table |-> table, inflight |-> inflight]]
  /\ prev' = IF pc[p] = "idle" \/ cli.cmd # "" THEN prev
             ELSE LET n == StoppedAt(p)
                  IN [err |-> err[p], name |-> n,
                      records |-> IF n = NoName THEN 0
                                  ELSE table[n] + inflight[n],
                      ran |-> TRUE]
  /\ UNCHANGED << cfgVars, dbVars >>

\* main: app.Run dispatches `migrate` / `migrate-test` to migrate(isTest).
Start(p) ==
  /\ Invoke(p)
  /\ pc' = [pc EXCEPT ![p] = "getDbConn"]
  /\ err' = [err EXCEPT ![p] = ""]
  /\ cli' = NoCli

\* getDbConn: no address can be resolved.
ConfigError(p) ==
  /\ pc[p] = "getDbConn"
  /\ ResolveAddr(env) = ""
  /\ Return(p, "config")
  /\ UNCHANGED << cfgVars, dbVars, runs, conn, files, idx, trace, snap,
                  prev, cli >>

\* getDbConn: clickhouse.Open with the resolved address and database.
Open(p) ==
  /\ pc[p] = "getDbConn"
  /\ ResolveAddr(env) # ""
  /\ \E ok \in BOOLEAN :
       /\ Log(p, Ev("open", NoName, IF ok THEN "ok" ELSE "fail"))
       /\ conn' = [conn EXCEPT ![p] =
                     [addr |-> ResolveAddr(env),
                      database |-> ResolveDatabase(env, isTest)]]
       /\ IF ok THEN Goto(p, "probe") /\ UNCHANGED err
                ELSE Return(p, "open")
  /\ UNCHANGED << cfgVars, dbVars, runs, files, idx, snap, prev, cli >>

\* Mutant: the create statement is issued whatever the probe found.
ProbeRecreate(p) ==
  /\ pc[p] = "probe"
  /\ \E answered \in BOOLEAN :
       IF ~answered
       THEN /\ Log(p, Ev("probe", NoName, "fail"))
            /\ pc' = [pc EXCEPT ![p] = "panicked"]
            /\ err' = [err EXCEPT ![p] = "panic"]
       ELSE /\ Log(p, Ev("probe", NoName,
                         IF tableExists THEN "found" ELSE "none"))
            /\ Goto(p, "create")
            /\ UNCHANGED err
  /\ UNCHANGED << cfgVars, dbVars, runs, conn, files, idx, snap, prev, cli >>

\* createMigrationsTable: SHOW TABLES LIKE 'migrations'.  An error other
\* than sql.ErrNoRows panics; a row means the table exists.
Probe(p) ==
  /\ pc[p] = "probe"
  /\ \E answered \in BOOLEAN :
       IF ~answered
       THEN /\ Log(p, Ev("probe", NoName, "fail"))
            /\ pc' = [pc EXCEPT ![p] = "panicked"]
            /\ err' = [err EXCEPT ![p] = "panic"]
       ELSE LET exists == IF tableExists THEN "migrations" ELSE ""
            IN /\ Log(p, Ev("probe", NoName,
                            IF exists # "" THEN "found" ELSE "none"))
               /\ Goto(p, IF exists # "" THEN "readDir" ELSE "create")
               /\ UNCHANGED err
  /\ UNCHANGED << cfgVars, dbVars, runs, conn, files, idx, snap, prev, cli >>

\* Mutant: the statement replaces an existing table by an empty one.
CreateReplace(p) ==
  /\ pc[p] = "create"
  /\ \E ok \in BOOLEAN :
       /\ Log(p, Ev("create", NoName, IF ok THEN "ok" ELSE "fail"))
       /\ IF ok THEN /\ tableExists' = TRUE
                     /\ table' = Zero
                     /\ Goto(p, "readDir")
                     /\ UNCHANGED err
                ELSE /\ Return(p, "create")
                     /\ UNCHANGED << tableExists, table >>
  /\ UNCHANGED << cfgVars, inflight, applied, runs, conn, files, idx,
                  snap, prev, cli >>

\* createMigrationsTable: CREATE TABLE IF NOT EXISTS migrations.
Create(p) ==
  /\ pc[p] = "create"
  /\ \E ok \in BOOLEAN :
       /\ Log(p, Ev("create", NoName, IF ok THEN "ok" ELSE "fail"))
       /\ IF ok THEN /\ tableExists' = TRUE
                     /\ Goto(p, "readDir")
                     /\ UNCHANGED err
                ELSE /\ Return(p, "create")
                     /\ UNCHANGED tableExists
  /\ UNCHANGED << cfgVars, table, inflight, applied, runs, conn, files, idx,
                  snap, prev, cli >>

\* runMigrations: files, err := ioutil.ReadDir(migrationDir)
ListDir(p) ==
  /\ pc[p] = "readDir"
  /\ \E ok \in BOOLEAN :
       /\ Log(p, Ev("readdir", NoName, IF ok THEN "ok" ELSE "fail"))
       /\ IF ok THEN /\ files' = [files EXCEPT ![p] = ReadDir(dir)]
                     /\ idx' = [idx EXCEPT ![p] = 1]
                     /\ Goto(p, "loop")
                     /\ UNCHANGED err
                ELSE /\ Return(p, "readdir")
                     /\ UNCHANGED << files, idx >>
  /\ UNCHANGED << cfgVars, dbVars, runs, conn, snap, prev, cli >>

\* for _, file := range files: the range is exhausted, return nil.
LoopEnd(p) ==
  /\ pc[p] = "loop"
  /\ idx[p] > Len(files[p])
  /\ Return(p, "")
  /\ UNCHANGED << cfgVars, dbVars, runs, conn, files, idx, trace, snap,
                  prev, cli >>

\* Mutant: the directory filter is missing.
IsCandidateAnySql(e) == HasSuffix(e.name, SqlSuffix)

\* The two filters at the head of the loop body.
IsCandidate(e) == ~e.isDir /\ HasSuffix(e.name, SqlSuffix)

\* if file.IsDir() { continue }; if !HasSuffix(name, ".sql") { continue }
SkipEntry(p) ==
  /\ pc[p] = "loop"
  /\ idx[p] <= Len(files[p])
  /\ ~IsCandidate(Cur(p))
  /\ idx' = [idx EXCEPT ![p] = @ + 1]
  /\ UNCHANGED << cfgVars, dbVars, runs, pc, conn, files, err, trace, snap,
                  prev, cli >>

\* The entry passed both filters: go on to the ledger lookup.
SelectEntry(p) ==
  /\ pc[p] = "loop"
  /\ idx[p] <= Len(files[p])
  /\ IsCandidate(Cur(p))
  /\ Goto(p, "lookup")
  /\ UNCHANGED << cfgVars, dbVars, runs, conn, files, idx, err, trace, snap,
                  prev, cli >>

\* Mutant: the lookup never reports a row.
HasRunNever(n) == 0

\* Mutant: the test of the lookup is inverted.
HasRunNegated(n) == IF table[n] > 0 THEN 0 ELSE 1

\* What Scan leaves in `exists` for SELECT 1 FROM migrations WHERE name = n:
\* 1 when a row is visible, 0 (untouched) on sql.ErrNoRows.
HasRun(n) == IF table[n] > 0 THEN 1 ELSE 0

\* Mutant: every error of the lookup is treated like sql.ErrNoRows.
LookupSwallow(p) ==
  /\ pc[p] = "lookup"
  /\ \E answered \in BOOLEAN :
       LET n == Cur(p).name IN
       IF ~answered \/ ~tableExists
       THEN /\ Log(p, Ev("lookup", n, "fail"))
            /\ Goto(p, "readFile")
            /\ UNCHANGED << idx, err >>
       ELSE IF HasRun(n) = 1
       THEN /\ Log(p, Ev("lookup", n, "found"))
            /\ idx' = [idx EXCEPT ![p] = @ + 1]
            /\ Goto(p, "loop")
            /\ UNCHANGED err
       ELSE /\ Log(p, Ev("lookup", n, "none"))
            /\ Goto(p, "readFile")
            /\ UNCHANGED << idx, err >>
  /\ UNCHANGED << cfgVars, dbVars, runs, conn, files, snap, prev, cli >>

\* Some other process is between its lookup of file n and the end of its
\* insert of n.
OtherInWindow(p, n) ==
  \E q \in Procs \ {p} :
    /\ pc[q] \in {"readFile", "exec", "insert", "println"}
    /\ Cur(q).name = n

\* Mutant: the lookup waits while another process is between its lookup
\* and its insert of the same file.
LookupLocked(p) ==
  /\ pc[p] = "lookup"
  /\ ~OtherInWindow(p, Cur(p).name)
  /\ \E answered \in BOOLEAN :
       LET n == Cur(p).name IN
       IF ~answered \/ ~tableExists
       THEN /\ Log(p, Ev("lookup", n, "fail"))
            /\ Return(p, "lookup")
            /\ UNCHANGED idx
       ELSE IF HasRun(n) = 1
       THEN /\ Log(p, Ev("lookup", n, "found"))
            /\ idx' = [idx EXCEPT ![p] = @ + 1]
            /\ Goto(p, "loop")
            /\ UNCHANGED err
       ELSE /\ Log(p, Ev("lookup", n, "none"))
            /\ Goto(p, "readFile")
            /\ UNCHANGED << idx, err >>
  /\ UNCHANGED << cfgVars, dbVars, runs, conn, files, snap, prev, cli >>

\* Mutant: a lookup that fails is made again.
LookupRetry(p) ==
  /\ pc[p] = "lookup"
  /\ \E answered \in BOOLEAN :
       LET n == Cur(p).name IN
       IF ~answered \/ ~tableExists
       THEN /\ Log(p, Ev("lookup", n, "fail"))
            /\ UNCHANGED << pc, idx, err >>
       ELSE IF HasRun(n) = 1
       THEN /\ Log(p, Ev("lookup", n, "found"))
            /\ idx' = [idx EXCEPT ![p] = @ + 1]
            /\ Goto(p, "loop")
            /\ UNCHANGED err
       ELSE /\ Log(p, Ev("lookup", n, "none"))
            /\ Goto(p, "readFile")
            /\ UNCHANGED << idx, err >>
  /\ UNCHANGED << cfgVars, dbVars, runs, conn, files, snap, prev, cli >>

\* runMigrations: the ledger lookup.  Any error but sql.ErrNoRows returns;
\* exists == 1 continues with the next file.
Lookup(p) ==
  /\ pc[p] = "lookup"
  /\ \E answered \in BOOLEAN :
       LET n == Cur(p).name IN
       IF ~answered \/ ~tableExists
       THEN /\ Log(p, Ev("lookup", n, "fail"))
            /\ Return(p, "lookup")
            /\ UNCHANGED idx
       ELSE IF HasRun(n) = 1
       THEN /\ Log(p, Ev("lookup", n, "found"))
            /\ idx' = [idx EXCEPT ![p] = @ + 1]
            /\ Goto(p, "loop")
            /\ UNCHANGED err
       ELSE /\ Log(p, Ev("lookup", n, "none"))
            /\ Goto(p, "readFile")
            /\ UNCHANGED << idx, err >>
  /\ UNCHANGED << cfgVars, dbVars, runs, conn, files, snap, prev, cli >>

\* content, err := os.ReadFile(migrationDir + file.Name())
ReadFile(p) ==
  /\ pc[p] = "readFile"
  /\ \E ok \in BOOLEAN :
       /\ Log(p, Ev("readfile", Cur(p).name, IF ok THEN "ok" ELSE "fail"))
       /\ IF ok THEN Goto(p, "exec") /\ UNCHANGED err
                ELSE Return(p, "readfile")
  /\ UNCHANGED << cfgVars, dbVars, runs, conn, files, idx, snap, prev, cli >>

\* Mutant: the error of db.Exec is not returned.
ExecSwallow(p) ==
  /\ pc[p] = "exec"
  /\ \E ok \in BOOLEAN :
       LET n == Cur(p).name IN
       /\ Log(p, Ev("exec", n, IF ok THEN "ok" ELSE "fail"))
       /\ applied' = IF ok THEN [applied EXCEPT ![n] = @ + 1] ELSE applied
       /\ Goto(p, "insert")
       /\ UNCHANGED err
  /\ UNCHANGED << cfgVars, tableExists, table, inflight, runs, conn, files,
                  idx, snap, prev, cli >>

\* err = db.Exec(ctx, string(content))
Exec(p) ==
  /\ pc[p] = "exec"
  /\ \E ok \in BOOLEAN :
       LET n == Cur(p).name IN
       /\ Log(p, Ev("exec", n, IF ok THEN "ok" ELSE "fail"))
       /\ IF ok THEN /\ applied' = [applied EXCEPT ![n] = @ + 1]
                     /\ Goto(p, "insert")
                     /\ UNCHANGED err
                ELSE /\ Return(p, "exec")
                     /\ UNCHANGED applied
  /\ UNCHANGED << cfgVars, tableExists, table, inflight, runs, conn, files,
                  idx, snap, prev, cli >>

\* Mutant: the error of db.AsyncInsert is not returned.
InsertSwallow(p) ==
  /\ pc[p] = "insert"
  /\ \E accepted \in BOOLEAN :
       LET n == Cur(p).name
           ok == accepted /\ tableExists IN
       /\ Log(p, Ev("insert", n, IF ok THEN "ok" ELSE "fail"))
       /\ inflight' = IF ok THEN [inflight EXCEPT ![n] = @ + 1] ELSE inflight
       /\ Goto(p, "println")
       /\ UNCHANGED err
  /\ UNCHANGED << cfgVars, tableExists, table, applied, runs, conn, files,
                  idx, snap, prev, cli >>

\* err = db.AsyncInsert(ctx, INSERT INTO migrations ..., false)
Insert(p) ==
  /\ pc[p] = "insert"
  /\ \E accepted \in BOOLEAN :
       LET n == Cur(p).name
           ok == accepted /\ tableExists IN
       /\ Log(p, Ev("insert", n, IF ok THEN "ok" ELSE "fail"))
       /\ IF ok THEN /\ inflight' = [inflight EXCEPT ![n] = @ + 1]
                     /\ Goto(p, "println")
                     /\ UNCHANGED err
                ELSE /\ Return(p, "insert")
                     /\ UNCHANGED inflight
  /\ UNCHANGED << cfgVars, tableExists, table, applied, runs, conn, files,
                  idx, snap, prev, cli >>

\* Mutant: the loop ends after the first file it migrates.
PrintlnBreak(p) ==
  /\ pc[p] = "println"
  /\ Log(p, Ev("println", Cur(p).name, "ok"))
  /\ Return(p, "")
  /\ UNCHANGED << cfgVars, dbVars, runs, conn, files, idx, snap, prev, cli >>

\* fmt.Println("Successfully migrated: " + file.Name()), then the next file.
Println(p) ==
  /\ pc[p] = "println"
  /\ Log(p, Ev("println", Cur(p).name, "ok"))
  /\ idx' = [idx EXCEPT ![p] = @ + 1]
  /\ Goto(p, "loop")
  /\ UNCHANGED << cfgVars, dbVars, runs, conn, files, err, snap, prev, cli >>

\* The server flushes its asynchronous-insert buffer into the table.
Flush ==
  /\ \E n \in Names : inflight[n] > 0
  /\ table' = [n \in Names |-> table[n] + inflight[n]]
  /\ inflight' = Zero
  /\ UNCHANGED << cfgVars, tableExists, applied, runs, pc, conn, files, idx,
                  err, trace, snap, prev, cli >>

\* ------------------------------------------- docker pass-through commands

\* up, down, list: out, err := exec.Command(...).Output(); return err.
Propagate(cmd, failed) ==
  [cmd |-> cmd, failed |-> failed, ret |-> IF failed THEN "error" ELSE ""]

\* test: out, _ := exec.Command(...).Output(); return nil.
Discard(cmd, failed) == [cmd |-> cmd, failed |-> failed, ret |-> ""]

\* main: app.Run dispatches up / down / list / test; the subcommand's
\* return value is what the invocation ends with.
Shell(p, c) ==
  /\ Invoke(p)
  /\ cli' = c
  /\ pc' = [pc EXCEPT ![p] = "done"]
  /\ err' = [err EXCEPT ![p] = c.ret]

Up(p) == \E failed \in BOOLEAN : Shell(p, Propagate("up", failed))

Down(p) == \E failed \in BOOLEAN : Shell(p, Propagate("down", failed))

List(p) == \E failed \in BOOLEAN : Shell(p, Propagate("list", failed))

Test(p) == \E failed \in BOOLEAN : Shell(p, Discard("test", failed))

\* main: log.Fatal(err) when app.Run returns an error (exit status 1).
ExitStatus(ret) == IF ret # "" THEN 1 ELSE 0

\* ------------------------------------------------------- specifications

Step(p) ==
  \/ ConfigError(p)
  \/ Open(p)
  \/ Probe(p)
  \/ Create(p)
  \/ ListDir(p)
  \/ LoopEnd(p)
  \/ SkipEntry(p)
  \/ SelectEntry(p)
  \/ Lookup(p)
  \/ ReadFile(p)
  \/ Exec(p)
  \/ Insert(p)
  \/ Println(p)

\* One CLI invocation at a time: a single process slot, which Invoke
\* reuses only when the invocation before it has ended.
Next ==
  \/ \E p \in SeqProcs : Start(p)
  \/ \E p \in SeqProcs : Up(p)
  \/ \E p \in SeqProcs : Down(p)
  \/ \E p \in SeqProcs : List(p)
  \/ \E p \in SeqProcs : Test(p)
  \/ \E p \in SeqProcs : Step(p)
  \/ Flush

Spec == Init /\ [][Next]_vars

SpecCfg == InitCfg /\ [][Next]_vars

\* A started invocation keeps running: every call it makes returns (the
\* connection sets a server-side execution-time ceiling), so its next
\* step is eventually taken.  Nothing obliges a new invocation or a flush.
Fairness == WF_vars(\E p \in SeqProcs : Step(p))

SpecLive == Init /\ [][Next]_vars /\ Fairness

\* The listings SpecConc runs over: 2.sql alone and with the entries that
\* are no migration files.
DirConc == { {Entry(File2, FALSE)} \cup J : J \in { {}, Others } }

InitConc ==
  /\ env \in EnvMig
  /\ isTest = FALSE
  /\ dir \in DirConc
  /\ Fresh

\* Two migrate processes against the same database and directory, their
\* steps interleaved.
NextConc ==
  \/ \E p \in Procs : Start(p)
  \/ \E p \in Procs : Step(p)
  \/ Flush

SpecConc == InitConc /\ [][NextConc]_vars

\* ------------------------------------------------------------- properties

\* The migration files of the directory universe and the other entries,
\* written out (not computed by the filters of the loop).
MigrationNames == {File1, File2}
OtherNames == {Notes, NoDot, SubDir}
InDir(n) == \E e \in dir : e.name = n

\* Positions of the run's trace holding operation o on name n with a
\* result in R.
At(p, o, n, R) ==
  { i \in DOMAIN trace[p] :
      trace[p][i].op = o /\ trace[p][i].name = n /\ trace[p][i].res \in R }

AnyRes == {"ok", "fail", "found", "none"}

Times(p, o, n, R) == Cardinality(At(p, o, n, R))

Records(n) == table[n] + inflight[n]
RecordsAtStart(p, n) == snap[p].table[n] + snap[p].inflight[n]

\* The invocation in slot p was a migrate run that returned nil.
CompletedOk(p) == pc[p] = "done" /\ err[p] = "" /\ trace[p] # <<>>

\* C1 as stated: a migration file with no row in the ledger table when the
\* run starts is executed exactly once and gets exactly one record by a run
\* that returns nil.
C1_AsStated ==
  \A p \in Procs : \A n \in MigrationNames :
    (CompletedOk(p) /\ InDir(n) /\ snap[p].table[n] = 0)
      => /\ Times(p, "exec", n, AnyRes) = 1
         /\ Times(p, "insert", n, {"ok"}) = 1
         /\ Records(n) = RecordsAtStart(p, n) + 1

\* C1 amended: a migration file with no row in the ledger table and no
\* accepted insert still waiting in the server's buffer when the run starts
\* is executed exactly once, and exactly one insert for it is accepted, by
\* a run that returns nil.
C1_PendingAppliedOnce ==
  \A p \in Procs : \A n \in MigrationNames :
    (CompletedOk(p) /\ InDir(n) /\ RecordsAtStart(p, n) = 0)
      => /\ Times(p, "exec", n, AnyRes) = 1
         /\ Times(p, "exec", n, {"ok"}) = 1
         /\ Times(p, "insert", n, AnyRes) = 1
         /\ Times(p, "insert", n, {"ok"}) = 1
         /\ Records(n) = 1

C1_Witness ==
  \E p \in Procs :
    /\ CompletedOk(p)
    /\ runs >= 2
    /\ InDir(File1)
    /\ RecordsAtStart(p, File1) > 0
    /\ RecordsAtStart(p, File2) = 0
    /\ Times(p, "exec", File2, {"ok"}) = 1
    /\ Records(File2) = 1

\* C2: a migration file that has a row in the ledger table when a run
\* starts is, in that run, never executed and never inserted.
C2_RecordedNeverRerun ==
  \A p \in Procs : \A n \in Names :
    snap[p].table[n] > 0
      => /\ Times(p, "readfile", n, AnyRes) = 0
         /\ Times(p, "exec", n, AnyRes) = 0
         /\ Times(p, "insert", n, AnyRes) = 0
         /\ pc[p] \in {"readFile", "exec", "insert", "println"}
              => Cur(p).name # n

C2_Witness ==
  \E p \in Procs :
    /\ CompletedOk(p)
    /\ snap[p].table[File1] > 0
    /\ snap[p].table[File2] > 0
    /\ At(p, "lookup", File1, {"found"}) # {}
    /\ At(p, "lookup", File2, {"found"}) # {}
    /\ prev.err = "insert"

\* C3: in a run, every operation on a migration file B comes after the
\* lookup of every migration file A < B of the directory, and, when that
\* lookup found A pending, after A's execution and A's ledger insert.
C3_LexicographicOneAtATime ==
  \A p \in Procs : \A j \in DOMAIN trace[p] :
    \A a \in MigrationNames :
      LET b == trace[p][j].name IN
      (b \in MigrationNames /\ InDir(a) /\ NameLess(a, b))
        => /\ \E i \in At(p, "lookup", a, {"found", "none"}) : i < j
           /\ At(p, "lookup", a, {"none"}) # {}
                => /\ \E i \in At(p, "exec", a, {"ok"}) : i < j
                   /\ \E i \in At(p, "insert", a, {"ok"}) : i < j

C3_Witness ==
  \E p \in Procs :
    /\ At(p, "lookup", File1, {"none"}) # {}
    /\ At(p, "insert", File1, {"ok"}) # {}
    /\ At(p, "lookup", File2, {"none"}) # {}
    /\ At(p, "insert", File2, {"ok"}) # {}

\* C4: a failed execution is the last operation of its run: the run
\* returns the execution error, and no insert for the file and no
\* operation on a later file follows.
C4_ExecFailureHalts ==
  \A p \in Procs : \A n \in Names :
    \A i \in At(p, "exec", n, {"fail"}) :
      /\ i = Len(trace[p])
      /\ pc[p] = "done"
      /\ err[p] = "exec"
      /\ Times(p, "insert", n, AnyRes) = 0
      /\ Records(n) = RecordsAtStart(p, n)

C4_Witness ==
  \E p \in Procs :
    /\ At(p, "exec", File1, {"fail"}) # {}
    /\ InDir(File2)
    /\ pc[p] = "done"
    /\ Records(File1) = 0

\* C5: directories and files whose name does not end in .sql are never
\* looked up, read, executed or recorded.
C5_NonCandidatesUntouched ==
  \A n \in OtherNames :
    /\ \A p \in Procs : \A i \in DOMAIN trace[p] : trace[p][i].name # n
    /\ \A p \in Procs :
         pc[p] \in {"lookup", "readFile", "exec", "insert", "println"}
           => Cur(p).name # n
    /\ table[n] = 0
    /\ inflight[n] = 0
    /\ applied[n] = 0

C5_Witness ==
  \E p \in Procs :
    /\ CompletedOk(p)
    /\ Len(files[p]) = 5
    /\ Times(p, "insert", File1, {"ok"}) = 1
    /\ Times(p, "insert", File2, {"ok"}) = 1

IsOp(p, i, o, R) ==
  /\ i \in DOMAIN trace[p]
  /\ trace[p][i].op = o
  /\ trace[p][i].res \in R

\* C6: a ledger lookup is made only after the run's probe found the
\* table or its create statement succeeded; a probe that finds no table
\* is followed by the create statement; a run whose probe found the table
\* issues no create statement.
C6_TableBeforeLookup ==
  \A p \in Procs :
    /\ \A i \in DOMAIN trace[p] :
         trace[p][i].op = "lookup"
           => /\ \E j \in 1..(i - 1) :
                   \/ IsOp(p, j, "probe", {"found"})
                   \/ IsOp(p, j, "create", {"ok"})
              /\ tableExists
    /\ pc[p] = "lookup" => tableExists
    /\ \A i \in DOMAIN trace[p] :
         IsOp(p, i, "probe", {"none"})
           => IF i = Len(trace[p]) THEN pc[p] = "create"
              ELSE trace[p][i + 1].op = "create"
    /\ (\E i \in DOMAIN trace[p] : IsOp(p, i, "probe", {"found"}))
         => /\ \A j \in DOMAIN trace[p] : trace[p][j].op # "create"
            /\ pc[p] # "create"

C6_Witness ==
  \E p \in Procs :
    /\ runs >= 2
    /\ IsOp(p, 2, "probe", {"found"})
    /\ \E i \in DOMAIN trace[p] : trace[p][i].op = "lookup"

\* The migration state is as the database was created: nothing executed,
\* no table, no record.
Untouched ==
  /\ ~tableExists
  /\ table = Zero
  /\ inflight = Zero
  /\ applied = Zero

\* C7: with DB_ADDR and DB_LOCAL_ADDR both empty, a migrate run ends with
\* the configuration error and performs no external operation at all: no
\* connection is opened, nothing is created, looked up, executed or inserted.
C7_NoAddressNoConnection ==
  (env.DB_ADDR = "" /\ env.DB_LOCAL_ADDR = "")
    => /\ Untouched
       /\ \A p \in Procs :
            /\ trace[p] = <<>>
            /\ conn[p] = NoConn
            /\ pc[p] \in {"idle", "getDbConn", "done"}
            /\ (pc[p] = "done" /\ cli.cmd = "") => err[p] = "config"

C7_Witness ==
  \E p \in Procs :
    /\ env.DB_ADDR = ""
    /\ env.DB_LOCAL_ADDR = ""
    /\ cli.cmd = ""
    /\ pc[p] = "done"
    /\ err[p] = "config"
    /\ runs >= 2

\* C8: whenever the external command of up, down, list or test fails,
\* the subcommand returns an error and the process exits non-zero.
C8_ShellErrorsPropagate ==
  (cli.cmd \in {"up", "down", "list", "test"} /\ cli.failed)
    => /\ cli.ret # ""
       /\ ExitStatus(cli.ret) = 1
       /\ \A p \in SeqProcs : err[p] # ""

\* The database name the documentation of the commands promises.
ExpectedDatabase ==
  CASE env.DB_NAME = "" /\ ~isTest -> "logme"
    [] env.DB_NAME = "" /\ isTest -> "logme_test"
    [] env.DB_NAME = "prod" /\ ~isTest -> "prod"
    [] env.DB_NAME = "prod" /\ isTest -> "prod_test"

\* C9: the connection uses DB_ADDR whenever it is non-empty and
\* DB_LOCAL_ADDR only when DB_ADDR is empty; the database is DB_NAME, or
\* logme when unset, with _test appended exactly in test mode.
C9_AddressAndDatabase ==
  \A p \in Procs :
    /\ trace[p] # <<>> => conn[p] # NoConn
    /\ conn[p] # NoConn
         => /\ env.DB_ADDR # "" => conn[p].addr = env.DB_ADDR
            /\ env.DB_ADDR = ""
                 => conn[p].addr = env.DB_LOCAL_ADDR /\ conn[p].addr # ""
            /\ conn[p].database = ExpectedDatabase

C9_Witness ==
  \E p \in Procs :
    /\ env.DB_ADDR = "ch:9000"
    /\ env.DB_LOCAL_ADDR = "localhost:9000"
    /\ env.DB_NAME = "prod"
    /\ isTest
    /\ conn[p].addr = "ch:9000"
    /\ conn[p].database = "prod_test"
    /\ IsOp(p, 1, "open", {"ok"})

\* In the current run, the file whose insert failed in the previous run
\* is, once looked up, found without a record, and the run goes on to read
\* it and, the read succeeding, to execute it.
RetriedAfterFailedInsert(p) ==
  LET n == prev.name IN
  /\ At(p, "lookup", n, {"found"}) = {}
  /\ \A i \in At(p, "lookup", n, {"none"}) :
       /\ i < Len(trace[p]) => trace[p][i + 1].op = "readfile"
       /\ (i + 1 < Len(trace[p]) /\ trace[p][i + 1].res = "ok")
            => trace[p][i + 2].op = "exec"
       /\ i = Len(trace[p]) => pc[p] \in {"readFile", "done"}

\* The insert of file n failed at position i of the run: the run ended
\* there with the insert error, right after the successful execution.
HaltedAtInsert(p, n, i) ==
  /\ i = Len(trace[p])
  /\ pc[p] = "done"
  /\ err[p] = "insert"
  /\ IsOp(p, i - 1, "exec", {"ok"})
  /\ trace[p][i - 1].name = n
  /\ applied[n] >= 1

\* C10 as stated: a failed insert after a successful execution ends the
\* run with the insert error, leaves the file applied and without a ledger
\* row, and the next run finds no record and executes the file again.
C10_AsStated ==
  \A p \in SeqProcs :
    /\ \A n \in Names : \A i \in At(p, "insert", n, {"fail"}) :
         HaltedAtInsert(p, n, i) /\ table[n] = 0
    /\ prev.err = "insert" => RetriedAfterFailedInsert(p)

\* C10 amended: a failed insert after a successful execution ends the run
\* with the insert error and no later file is considered; provided no
\* earlier insert for the file is still buffered, the file is left applied
\* and not recorded, and the next run, on reaching the file, finds no
\* record and goes on to execute it again.
C10_FailedInsertRetried ==
  \A p \in SeqProcs :
    /\ \A n \in Names : \A i \in At(p, "insert", n, {"fail"}) :
         /\ HaltedAtInsert(p, n, i)
         /\ snap[p].inflight[n] = 0 => Records(n) = 0
    /\ (prev.err = "insert" /\ prev.records = 0)
         => RetriedAfterFailedInsert(p)

C10_Witness ==
  \E p \in SeqProcs :
    /\ prev.err = "insert"
    /\ prev.records = 0
    /\ prev.name = File1
    /\ At(p, "lookup", File1, {"none"}) # {}
    /\ At(p, "exec", File1, {"ok"}) # {}
    /\ applied[File1] = 2

\* C11: a lookup or probe that reports no row lets the run continue (the
\* file is read next, the table is created next); a lookup that fails
\* otherwise is the last operation of its run, which returns that error
\* and never reads, executes or records the file; a probe that fails
\* otherwise is the last operation of its run, which panics.
C11_LookupErrors ==
  \A p \in Procs :
    /\ \A n \in Names : \A i \in At(p, "lookup", n, {"fail"}) :
         /\ i = Len(trace[p])
         /\ pc[p] = "done"
         /\ err[p] = "lookup"
         /\ Times(p, "readfile", n, AnyRes) = 0
         /\ Times(p, "exec", n, AnyRes) = 0
         /\ Times(p, "insert", n, AnyRes) = 0
    /\ \A n \in Names : \A i \in At(p, "lookup", n, {"none"}) :
         IF i = Len(trace[p]) THEN pc[p] = "readFile"
         ELSE trace[p][i + 1].op = "readfile" /\ trace[p][i + 1].name = n
    /\ \A i \in DOMAIN trace[p] :
         /\ IsOp(p, i, "probe", {"fail"})
              => i = Len(trace[p]) /\ pc[p] = "panicked"
         /\ IsOp(p, i, "probe", {"none"})
              => IF i = Len(trace[p]) THEN pc[p] = "create"
                 ELSE trace[p][i + 1].op = "create"

C11_Witness ==
  \E p \in Procs :
    /\ At(p, "lookup", File1, {"none"}) # {}
    /\ At(p, "exec", File1, {"ok"}) # {}
    /\ At(p, "lookup", File2, {"fail"}) # {}
    /\ applied[File2] = 0
    /\ pc[p] = "done"

\* Process q is about to look up file n, which has no row in the table,
\* while process p is between its own lookup of n and its insert of n.
Racing(p, q, n) ==
  /\ p # q
  /\ pc[p] \in {"readFile", "exec", "insert"}
  /\ Cur(p).name = n
  /\ pc[q] = "lookup"
  /\ Cur(q).name = n
  /\ tableExists
  /\ table[n] = 0

\* C12: nothing makes a process wait between another process's lookup of
\* a file and its insert: whenever one process is in that window, the
\* lookup of the same file by the other process can be answered, with no
\* record, at once; so the file is executed by both.
C12_NoLockBetweenLookupAndInsert ==
  \A p \in Procs : \A q \in Procs : \A n \in MigrationNames :
    Racing(p, q, n) => ENABLED (Lookup(q) /\ pc'[q] = "readFile")

\* Both runs started with no record of 2.sql, both executed it and both
\* recorded it.
C12_Witness ==
  /\ applied[File2] = 2
  /\ table[File2] = 2
  /\ \A p \in Procs :
       /\ RecordsAtStart(p, File2) = 0
       /\ At(p, "lookup", File2, {"none"}) # {}
       /\ At(p, "exec", File2, {"ok"}) # {}
       /\ At(p, "insert", File2, {"ok"}) # {}

\* C13: no step removes the migrations table or a row of it: the number
\* of rows of every name, and of rows and buffered rows together, never
\* decreases.
C13_AppendOnly ==
  [][ /\ tableExists => tableExists'
      /\ \A n \in Names :
           /\ table'[n] >= table[n]
           /\ table'[n] + inflight'[n] >= table[n] + inflight[n] ]_vars

\* A run that started with 2.sql recorded has failed, and the row is
\* still there.
C13_Witness ==
  \E p \in Procs :
    /\ snap[p].table[File2] >= 1
    /\ pc[p] \in {"done", "panicked"}
    /\ err[p] \notin {"", "config"}
    /\ table[File2] >= snap[p].table[File2]
    /\ runs = MaxRuns

\* C14: a "Successfully migrated" line for a file is printed only right
\* after the file's statements executed and its ledger insert returned nil
\* in the same run; a file whose lookup found a record, whose execution
\* failed or whose insert failed has no such line in that run.
C14_NotificationAfterSuccess ==
  \A p \in Procs :
    /\ \A i \in DOMAIN trace[p] :
         trace[p][i].op = "println" =>
           /\ i >= 3
           /\ trace[p][i-1] = Ev("insert", trace[p][i].name, "ok")
           /\ trace[p][i-2] = Ev("exec", trace[p][i].name, "ok")
    /\ \A n \in Names :
         ( \/ At(p, "lookup", n, {"found"}) # {}
           \/ At(p, "exec", n, {"fail"}) # {}
           \/ At(p, "insert", n, {"fail"}) # {} )
         => At(p, "println", n, AnyRes) = {}
    /\ \A n \in Names :
         Times(p, "println", n, AnyRes) <= Times(p, "insert", n, {"ok"})

\* One run skipped the recorded 1.sql without a line, printed the line for
\* 2.sql after executing and recording it, and returned nil.
C14_Witness ==
  \E p \in Procs :
    /\ CompletedOk(p)
    /\ At(p, "lookup", File1, {"found"}) # {}
    /\ At(p, "println", File1, AnyRes) = {}
    /\ At(p, "exec", File2, {"ok"}) # {}
    /\ At(p, "insert", File2, {"ok"}) # {}
    /\ At(p, "println", File2, AnyRes) # {}

\* C15: every row of the ledger, visible or buffered, names a regular
\* .sql file of the directory whose statements executed successfully at
\* least as often as it has rows; every insert of a run comes right after
\* the successful execution of the same file, and a file whose execution
\* failed or that was not executed gets no insert in that run.
C15_RecordsOnlyForExecuted ==
  /\ \A n \in Names :
       Records(n) > 0 =>
         /\ HasSuffix(n, SqlSuffix)
         /\ Entry(n, FALSE) \in dir
         /\ applied[n] >= Records(n)
  /\ \A p \in Procs :
       /\ \A i \in DOMAIN trace[p] :
            trace[p][i].op = "insert" =>
              /\ i >= 2
              /\ trace[p][i-1] = Ev("exec", trace[p][i].name, "ok")
       /\ \A n \in Names :
            ( \/ At(p, "exec", n, {"fail"}) # {}
              \/ At(p, "exec", n, AnyRes) = {} )
            => At(p, "insert", n, AnyRes) = {}

\* Both files are recorded, and the run that recorded 1.sql stopped at
\* the failed execution of 2.sql in an earlier attempt or this one.
C15_Witness ==
  /\ table[File1] = 1
  /\ applied[File1] = 1
  /\ \E p \in Procs :
       /\ At(p, "exec", File2, {"fail"}) # {}
       /\ At(p, "insert", File2, AnyRes) = {}
       /\ table[File2] = 0
       /\ inflight[File2] = 0

\* The regular .sql files of the directory.
Candidates == { e.name : e \in { f \in dir : IsCandidate(f) } }

\* When the run in slot p returned nil, every candidate file has a ledger
\* record: the run's lookup found one, or the run's insert for the file
\* returned nil.
AllRecordedAfterOk(p) ==
  CompletedOk(p) =>
    \A n \in Candidates :
      /\ Records(n) >= 1
      /\ \/ At(p, "lookup", n, {"found"}) # {}
         \/ At(p, "insert", n, {"ok"}) # {}

\* The run in slot p has read, executed and recorded no file.
ExecutesNothing(p) ==
  \A i \in DOMAIN trace[p] :
    trace[p][i].op \notin {"readfile", "exec", "insert", "println"}

\* C16 as stated: after a migrate run that returned nil every candidate
\* file has a ledger record, and the next migrate run over the same
\* directory executes nothing.
C16_AsStated ==
  \A p \in SeqProcs :
    /\ AllRecordedAfterOk(p)
    /\ (prev.ran /\ prev.err = "") => ExecutesNothing(p)

\* C16 amended: after a migrate run that returned nil every candidate
\* file has a ledger record, visible or still buffered; the next migrate
\* run over the same directory executes nothing provided no accepted
\* insert was still buffered when it started.
C16_CompleteRunLeavesNothingPending ==
  \A p \in SeqProcs :
    /\ AllRecordedAfterOk(p)
    /\ (prev.ran /\ prev.err = "" /\ snap[p].inflight = Zero)
         => ExecutesNothing(p)

\* The first run migrated both files and returned nil, the buffer was
\* flushed, and the second run found both recorded and returned nil
\* having executed nothing.
C16_Witness ==
  \E p \in SeqProcs :
    /\ prev.ran
    /\ prev.err = ""
    /\ snap[p].inflight = Zero
    /\ snap[p].table[File1] = 1
    /\ snap[p].table[File2] = 1
    /\ CompletedOk(p)
    /\ At(p, "lookup", File1, {"found"}) # {}
    /\ At(p, "lookup", File2, {"found"}) # {}
    /\ applied[File1] = 1
    /\ applied[File2] = 1

\* The per-file operations of the loop body.
FileOps == {"lookup", "readfile", "exec", "insert", "println"}

\* In the run in slot p each directory entry is considered at most once:
\* no operation is made twice on the same file, and the files are taken
\* in the order of the listing.
OncePerEntry(p) ==
  /\ \A n \in Names : \A o \in FileOps : Times(p, o, n, AnyRes) <= 1
  /\ \A i \in DOMAIN trace[p] : \A j \in DOMAIN trace[p] :
       ( /\ i < j
         /\ trace[p][i].op \in FileOps
         /\ trace[p][j].op \in FileOps
         /\ trace[p][i].name # trace[p][j].name )
       => NameLess(trace[p][i].name, trace[p][j].name)

\* No failed step is retried: a failed operation is the last of its run,
\* and the run has ended.
NoRetry(p) ==
  \A i \in DOMAIN trace[p] :
    trace[p][i].res = "fail" =>
      /\ i = Len(trace[p])
      /\ pc[p] \in {"done", "panicked"}

\* The invocation in slot p is a migrate run that has ended.
MigrateEnded(p) == pc[p] \in {"done", "panicked"} /\ cli.cmd = ""

\* The run returned the error of its first failed step.
EndsByError(p) ==
  /\ pc[p] = "done"
  /\ err[p] # ""
  /\ IF err[p] = "config" THEN trace[p] = <<>>
     ELSE /\ trace[p] # <<>>
          /\ trace[p][Len(trace[p])].op = err[p]
          /\ trace[p][Len(trace[p])].res = "fail"

\* The run returned nil after the last entry of the listing.
EndsBySuccess(p) ==
  /\ pc[p] = "done"
  /\ err[p] = ""
  /\ idx[p] = Len(files[p]) + 1
  /\ files[p] = ReadDir(dir)
  /\ \A i \in DOMAIN trace[p] : trace[p][i].res # "fail"

\* The run panicked in createMigrationsTable on a failed probe.
EndsByPanic(p) ==
  /\ pc[p] = "panicked"
  /\ err[p] = "panic"
  /\ trace[p] = << Ev("open", NoName, "ok"), Ev("probe", NoName, "fail") >>

\* C17 as stated: every migrate run terminates, considers each directory
\* entry at most once, retries no failed step, and ends by returning its
\* first error or by returning nil after the last entry.
C17_AsStated ==
  /\ \A p \in SeqProcs : Active(p) ~> ~Active(p)
  /\ [](\A p \in SeqProcs :
         /\ OncePerEntry(p)
         /\ NoRetry(p)
         /\ MigrateEnded(p) => (EndsByError(p) \/ EndsBySuccess(p)))

\* C17 amended: every migrate run terminates, considers each directory
\* entry at most once, retries no failed step, and ends by returning its
\* first error, by returning nil after the last entry, or, when the
\* table probe fails, by panicking before any entry is considered.
C17_RunTerminates ==
  /\ \A p \in SeqProcs : Active(p) ~> ~Active(p)
  /\ [](\A p \in SeqProcs :
         /\ OncePerEntry(p)
         /\ NoRetry(p)
         /\ MigrateEnded(p)
              => (EndsByError(p) \/ EndsBySuccess(p) \/ EndsByPanic(p)))

\* A run over the full listing migrated both files, passed the three
\* other entries and returned nil; the run before it had panicked.
C17_Witness ==
  \E p \in SeqProcs :
    /\ prev.ran
    /\ prev.err = "panic"
    /\ EndsBySuccess(p)
    /\ Len(files[p]) = 5
    /\ At(p, "println", File1, AnyRes) # {}
    /\ At(p, "println", File2, AnyRes) # {}

====
